---- MODULE Spec2Model ----
(***************************************************************************)
(* Model of the devbeacons dashboard client: the three fetch wrappers of   *)
(* src/services/api.ts (fetchRepositories, fetchWorkflows,                 *)
(* fetchWorkflowLogs with its log normalization) and the LogViewer         *)
(* component (loadLogs, downloadLogs, file selection).                     *)
(*                                                                         *)
(* Strings are TLA+ strings; Len, SubSeq and \o act on them character by   *)
(* character, so substring search and replacement are computed, not        *)
(* assumed.                                                                *)
(***************************************************************************)
EXTENDS Integers, Sequences, FiniteSets, TLC

VARIABLES
    fn,            \* which wrapper of api.ts the call under study is
    response,      \* the HTTP response the wrapper receives
    result,        \* outcome of the call: pending, returned a value, or threw
    accessToken,   \* useAuth().accessToken
    ownerName,     \* useAuth().ownerName
    repoName,      \* LogViewer prop
    workflowId,    \* LogViewer prop
    workflowTitle, \* LogViewer prop
    logFiles,      \* LogViewer state
    activeFile,    \* LogViewer state
    loading,       \* LogViewer state
    mounted,       \* whether the component's first effect has run
    pending,       \* requests of the loadLogs calls suspended at their await
    lastLoaded,    \* history: request of the latest fetch whose logs were stored
    toast,         \* the latest toast shown
    download       \* the file handed to the browser by downloadLogs

apiVars == <<fn, response, result>>
viewVars == <<accessToken, ownerName, repoName, workflowId, workflowTitle,
              logFiles, activeFile, loading, mounted, pending, lastLoaded, toast,
              download>>
vars == <<fn, response, result, accessToken, ownerName, repoName, workflowId,
          workflowTitle, logFiles, activeFile, loading, mounted, pending,
          lastLoaded, toast, download>>

(***************************************************************************)
(* JSON values as response.json() yields them.  Every value is a record of *)
(* the same shape; t is the JavaScript type, undefined is a missing        *)
(* property.  An object keeps its keys in Object.keys order.               *)
(***************************************************************************)
JUndefined == [t |-> "undefined", n |-> 0, s |-> "", k |-> <<>>, a |-> <<>>]
JNull == [t |-> "null", n |-> 0, s |-> "", k |-> <<>>, a |-> <<>>]
JNum(n) == [t |-> "number", n |-> n, s |-> "", k |-> <<>>, a |-> <<>>]
JStr(s) == [t |-> "string", n |-> 0, s |-> s, k |-> <<>>, a |-> <<>>]
JArr(a) == [t |-> "array", n |-> 0, s |-> "", k |-> <<>>, a |-> a]
JObj(k, a) == [t |-> "object", n |-> 0, s |-> "", k |-> k, a |-> a]

\* JavaScript truthiness, as used by `if (x)` and `x || y`.
Truthy(v) ==
    CASE v.t = "undefined" -> FALSE
      [] v.t = "null" -> FALSE
      [] v.t = "number" -> v.n # 0
      [] v.t = "string" -> v.s # ""
      [] OTHER -> TRUE

\* Array.isArray(v)
IsArray(v) == v.t = "array"

\* Reading a property of null or undefined raises a TypeError; so does
\* Object.keys of either.
Nullish(v) == v.t \in {"undefined", "null"}

\* Object.keys(v): own enumerable keys; indices for arrays and strings,
\* none for numbers.
ObjectKeys(v) ==
    CASE v.t = "object" -> v.k
      [] v.t = "array" -> [i \in 1..Len(v.a) |-> ToString(i - 1)]
      [] v.t = "string" -> [i \in 1..Len(v.s) |-> ToString(i - 1)]
      [] OTHER -> <<>>

\* v[key] for a value that is not null or undefined.
Get(v, key) ==
    CASE v.t = "object" ->
            IF \E i \in 1..Len(v.k) : v.k[i] = key
            THEN v.a[CHOOSE i \in 1..Len(v.k) : v.k[i] = key]
            ELSE JUndefined
      [] v.t = "array" ->
            IF \E i \in 1..Len(v.a) : ToString(i - 1) = key
            THEN v.a[CHOOSE i \in 1..Len(v.a) : ToString(i - 1) = key]
            ELSE JUndefined
      [] v.t = "string" ->
            IF \E i \in 1..Len(v.s) : ToString(i - 1) = key
            THEN JStr(LET i == CHOOSE j \in 1..Len(v.s) : ToString(j - 1) = key
                      IN SubSeq(v.s, i, i))
            ELSE JUndefined
      [] OTHER -> JUndefined

\* String.prototype.includes: kw occurs in s as a contiguous substring,
\* compared character by character (case matters).
StrIncludes(s, kw) ==
    \E i \in 1..(Len(s) - Len(kw) + 1) : SubSeq(s, i, i + Len(kw) - 1) = kw

\* Whether `log.includes` is callable: strings and arrays have the method,
\* anything else raises a TypeError at the call.
HasIncludes(log) == log.t \in {"string", "array"}

\* log.includes(kw) for a value that has the method; on an array it is
\* element membership.
Includes(log, kw) ==
    IF log.t = "string" THEN StrIncludes(log.s, kw)
    ELSE \E i \in 1..Len(log.a) : log.a[i] = JStr(kw)

RECURSIVE Flatten(_)
\* Concatenation of a sequence of sequences, in order.
Flatten(ss) == IF ss = <<>> THEN <<>> ELSE Head(ss) \o Flatten(Tail(ss))

(***************************************************************************)
(* Outcome of an async wrapper: still pending, resolved with a value, or   *)
(* rejected.  Every rejection passes through the wrapper's catch block,    *)
(* which logs it with console.error and rethrows.                          *)
(***************************************************************************)
Pending == [state |-> "pending", value |-> <<>>, logged |-> FALSE]
Returned(v) == [state |-> "returned", value |-> v, logged |-> FALSE]
Threw == [state |-> "threw", value |-> <<>>, logged |-> TRUE]

(***************************************************************************)
(* fetchWorkflowLogs: the log normalization.                               *)
(***************************************************************************)
\* The precedence a wrong ordering of the three tests would give.
ClassifyErrorFirst(log) ==
    IF Includes(log, "error") \/ Includes(log, "failed") THEN "error"
    ELSE IF Includes(log, "warning") \/ Includes(log, "waiting") THEN "warning"
    ELSE IF Includes(log, "success") \/ Includes(log, "completed") THEN "success"
    ELSE "info"

\* The type of one raw line: the if / else-if chain on log.includes(...).
Classify(log) ==
    IF Includes(log, "success") \/ Includes(log, "completed") THEN "success"
    ELSE IF Includes(log, "warning") \/ Includes(log, "waiting") THEN "warning"
    ELSE IF Includes(log, "error") \/ Includes(log, "failed") THEN "error"
    ELSE "info"

\* A category field that forgets the SingleLogs special case.
EntryCategoryVerbatim(category) == <<category>>

\* category === 'SingleLogs' ? undefined : category.  The field is the empty
\* sequence when undefined and a one-element sequence otherwise.
EntryCategory(category) ==
    IF category = "SingleLogs" THEN <<>> ELSE <<category>>

\* The entry pushed for one raw line of a category.
MakeEntry(log, category) ==
    [message |-> log, type |-> Classify(log), category |-> EntryCategory(category)]

\* One round of Object.keys(fileData).forEach: the entries a category adds,
\* or threw when an element of its array has no includes method.
CategoryEntries(fileData, category) ==
    LET v == Get(fileData, category)
    IN IF ~IsArray(v) THEN [threw |-> FALSE, entries |-> <<>>]
       ELSE IF \E i \in 1..Len(v.a) : ~HasIncludes(v.a[i])
            THEN [threw |-> TRUE, entries |-> <<>>]
            ELSE [threw |-> FALSE,
                  entries |-> [i \in 1..Len(v.a) |-> MakeEntry(v.a[i], category)]]

\* The entries array built for one file: every category in key order.
FileEntries(fileData) ==
    IF Nullish(fileData) THEN [threw |-> TRUE, entries |-> <<>>]
    ELSE LET keys == ObjectKeys(fileData)
             per == [i \in 1..Len(keys) |-> CategoryEntries(fileData, keys[i])]
         IN IF \E i \in 1..Len(keys) : per[i].threw
            THEN [threw |-> TRUE, entries |-> <<>>]
            ELSE [threw |-> FALSE,
                  entries |-> Flatten([i \in 1..Len(keys) |-> per[i].entries])]

\* A LogFile name with the two parts in the wrong order.
LogFileNameSwapped(jobName, fileName) == fileName \o "/" \o jobName

\* `${jobName}/${fileName}`
LogFileName(jobName, fileName) == jobName \o "/" \o fileName

\* A push that forgets the entries.length > 0 test.
PushLogFileAlways(files, jobName, fileName, entries) ==
    Append(files, [name |-> LogFileName(jobName, fileName), logs |-> entries])

\* if (entries.length > 0) logFiles.push({name, logs: entries})
PushLogFile(files, jobName, fileName, entries) ==
    IF Len(entries) > 0
    THEN Append(files, [name |-> LogFileName(jobName, fileName), logs |-> entries])
    ELSE files

RECURSIVE JobLogFiles(_, _, _, _)
\* Object.keys(jobLogs).forEach from the i-th file on, acc being logFiles.
JobLogFiles(jobName, jobLogs, i, acc) ==
    LET keys == ObjectKeys(jobLogs)
    IN IF i > Len(keys) THEN [threw |-> FALSE, files |-> acc]
       ELSE LET fe == FileEntries(Get(jobLogs, keys[i]))
            IN IF fe.threw THEN [threw |-> TRUE, files |-> <<>>]
               ELSE JobLogFiles(jobName, jobLogs, i + 1,
                                PushLogFile(acc, jobName, keys[i], fe.entries))

RECURSIVE AllLogFiles(_, _, _)
\* Object.keys(data.cleanedLogs).forEach from the i-th job on.
AllLogFiles(cleanedLogs, i, acc) ==
    LET keys == ObjectKeys(cleanedLogs)
    IN IF i > Len(keys) THEN [threw |-> FALSE, files |-> acc]
       ELSE LET jobLogs == Get(cleanedLogs, keys[i])
            IN IF Nullish(jobLogs) THEN [threw |-> TRUE, files |-> <<>>]
               ELSE LET r == JobLogFiles(keys[i], jobLogs, 1, acc)
                    IN IF r.threw THEN r
                       ELSE AllLogFiles(cleanedLogs, i + 1, r.files)

\* The body of fetchWorkflowLogs after response.json(): logFiles, or threw.
ProcessLogs(data) ==
    IF Nullish(data) THEN [threw |-> TRUE, files |-> <<>>]
    ELSE LET cleanedLogs == Get(data, "cleanedLogs")
         IN IF ~Truthy(cleanedLogs) THEN [threw |-> FALSE, files |-> <<>>]
            ELSE AllLogFiles(cleanedLogs, 1, <<>>)

\* fetchWorkflowLogs applied to the response of its fetch.
fetchWorkflowLogs(resp) ==
    IF ~resp.ok THEN Threw
    ELSE IF ~resp.parses THEN Threw
    ELSE LET r == ProcessLogs(resp.data)
         IN IF r.threw THEN Threw ELSE Returned(r.files)

(***************************************************************************)
(* fetchRepositories                                                       *)
(***************************************************************************)
\* data.repoNames.map(name => ({repoName: name})), or threw.
MapRepositories(data) ==
    IF Nullish(data) THEN [threw |-> TRUE, value |-> <<>>]
    ELSE LET names == Get(data, "repoNames")
         IN IF ~IsArray(names) THEN [threw |-> TRUE, value |-> <<>>]
            ELSE [threw |-> FALSE,
                  value |-> [i \in 1..Len(names.a) |-> [repoName |-> names.a[i]]]]

\* A wrapper that forgets the response.ok test.
fetchRepositoriesNoStatusCheck(resp) ==
    IF ~resp.parses THEN Threw
    ELSE LET r == MapRepositories(resp.data)
         IN IF r.threw THEN Threw ELSE Returned(r.value)

\* fetchRepositories applied to the response of its fetch.
fetchRepositories(resp) ==
    IF ~resp.ok THEN Threw
    ELSE IF ~resp.parses THEN Threw
    ELSE LET r == MapRepositories(resp.data)
         IN IF r.threw THEN Threw ELSE Returned(r.value)

(***************************************************************************)
(* fetchWorkflows                                                          *)
(***************************************************************************)
\* x || 0
OrZero(x) == IF Truthy(x) THEN x ELSE JNum(0)

\* data.storeLogs?.map(log => ({id, display_title})) || [], or threw.
MapWorkflows(data) ==
    LET storeLogs == Get(data, "storeLogs")
    IN IF Nullish(storeLogs) THEN [threw |-> FALSE, value |-> <<>>]
       ELSE IF ~IsArray(storeLogs) THEN [threw |-> TRUE, value |-> <<>>]
       ELSE IF \E i \in 1..Len(storeLogs.a) : Nullish(storeLogs.a[i])
            THEN [threw |-> TRUE, value |-> <<>>]
            ELSE [threw |-> FALSE,
                  value |-> [i \in 1..Len(storeLogs.a) |->
                                [id |-> Get(storeLogs.a[i], "id"),
                                 display_title |-> Get(storeLogs.a[i], "display_title")]]]

\* Stats read from the lowercase names throughout.
WorkflowStatsLowercase(data) ==
    [success |-> OrZero(Get(data, "success")),
     failure |-> OrZero(Get(data, "failure")),
     progress |-> OrZero(Get(data, "progress")),
     cancel |-> OrZero(Get(data, "cancel"))]

\* The stats object: success, failure, Progress and Cancel, each || 0.
WorkflowStats(data) ==
    [success |-> OrZero(Get(data, "success")),
     failure |-> OrZero(Get(data, "failure")),
     progress |-> OrZero(Get(data, "Progress")),
     cancel |-> OrZero(Get(data, "Cancel"))]

\* fetchWorkflows applied to the response of its fetch.
fetchWorkflows(resp) ==
    IF ~resp.ok THEN Threw
    ELSE IF ~resp.parses THEN Threw
    ELSE IF Nullish(resp.data) THEN Threw
    ELSE LET w == MapWorkflows(resp.data)
         IN IF w.threw THEN Threw
            ELSE Returned([workflows |-> w.value, stats |-> WorkflowStats(resp.data)])

(***************************************************************************)
(* Inputs: the responses the three endpoints can send.                     *)
(***************************************************************************)
MaxJobs == 2        \* jobs in one cleanedLogs map
MaxFiles == 2       \* files in one job
MaxCount == 3       \* largest stat counter in a workflows payload
MaxWorkflows == 2   \* entries of storeLogs
MaxRepos == 2       \* entries of repoNames

\* Sequences of pairwise distinct elements of pool, of length at most max:
\* the key lists an object can have.
KeySeqs(pool, max) ==
    UNION {{ks \in [1..n -> pool] : \A i, j \in 1..n : i # j => ks[i] # ks[j]} :
           n \in 0..max}

\* Objects with a key list from KeySeqs(pool, max) and values from vals.
Objects(pool, max, vals) ==
    UNION {{JObj(ks, vs) : vs \in [1..Len(ks) -> vals]} : ks \in KeySeqs(pool, max)}

\* Raw log lines: the literal cases of the classification, lines carrying
\* keywords of two classes, and lines whose keywords are capitalised.
LinePool ==
    {"Task completed", "Waiting for runner", "Step failed", "Starting job",
     "error: build completed", "failed while waiting", "warning: tests failed",
     "Build success", "WARNING: disk low", "Completed with error",
     "completed, warning ignored", ""}

\* Array elements that are not strings.
OddElements ==
    {JNull, JNum(7), JArr(<<JStr("success")>>), JArr(<<>>),
     JObj(<<"msg">>, <<JStr("failed")>>)}

JobNames == {"build", "test/unit"}
FileNames == {"1_setup.txt", "2_run.txt"}

\* What one file of a job can hold: category maps in several key orders,
\* categories that are not arrays, and null.
FileDatas ==
    {JObj(<<"SingleLogs">>, <<JArr(<<JStr("Starting job"), JStr("Task completed")>>)>>),
     JObj(<<"Build", "SingleLogs", "Test">>,
          <<JArr(<<JStr("Step failed")>>), JArr(<<JStr("Waiting for runner")>>),
            JArr(<<>>)>>),
     JObj(<<"SingleLogs", "Build">>, <<JNull, JObj(<<"lines">>, <<JNum(2)>>)>>),
     JObj(<<"Build", "Deploy">>,
          <<JStr("n/a"), JArr(<<JStr("error: build completed")>>)>>),
     JNull}

\* What one job can hold: a file map, or something that is no map.
JobValues == Objects(FileNames, MaxFiles, FileDatas) \cup {JNull, JStr("x")}

\* Payloads whose cleanedLogs is a job map.
StructuredPayloads ==
    {JObj(<<"cleanedLogs">>, <<cl>>) : cl \in Objects(JobNames, MaxJobs, JobValues)}

\* Payloads of one job, one file and one category holding one element.
LinePayloads ==
    {JObj(<<"cleanedLogs">>,
          <<JObj(<<"build">>, <<JObj(<<"1_setup.txt">>,
                <<JObj(<<c>>, <<JArr(<<e>>)>>)>>)>>)>>) :
        c \in {"SingleLogs", "Build"},
        e \in {JStr(l) : l \in LinePool} \cup OddElements}

\* Payloads whose cleanedLogs is absent or is no map at all.
ShapelessPayloads ==
    {JObj(<<>>, <<>>)} \cup
    {JObj(<<"cleanedLogs">>, <<cl>>) :
        cl \in {JNull, JNum(0), JNum(5), JStr(""), JStr("ab"), JArr(<<>>),
                JArr(<<JNull>>), JArr(<<JStr("failed")>>)}}

LogsPayloads == StructuredPayloads \cup LinePayloads \cup ShapelessPayloads

\* Workflows payloads: storeLogs absent, null or a list; each counter absent
\* or a number.
WorkflowItems ==
    {JObj(<<"id", "display_title">>, <<JStr("101"), JStr("CI")>>),
     JObj(<<"id">>, <<JStr("102")>>)}

StoreLogsValues ==
    {JUndefined, JNull} \cup
    UNION {{JArr(ws) : ws \in [1..n -> WorkflowItems]} : n \in 0..MaxWorkflows}

CounterValues == {JUndefined} \cup {JNum(n) : n \in 0..MaxCount}

\* The object holding exactly the properties that are not undefined.
ObjectOf(ks, vs) ==
    LET present == SelectSeq([i \in 1..Len(ks) |-> i], LAMBDA i : vs[i] # JUndefined)
    IN JObj([i \in 1..Len(present) |-> ks[present[i]]],
            [i \in 1..Len(present) |-> vs[present[i]]])

WorkflowsPayloads ==
    {ObjectOf(<<"storeLogs", "success", "failure", "Progress", "Cancel">>,
              <<sl, s, f, p, c>>) :
        sl \in StoreLogsValues, s \in CounterValues, f \in CounterValues,
        p \in CounterValues, c \in CounterValues}

RepoNamePool == {"web", "api"}

ReposPayloads ==
    {JObj(<<>>, <<>>), JObj(<<"repoNames">>, <<JNull>>)} \cup
    UNION {{JObj(<<"repoNames">>, <<JArr([i \in 1..n |-> JStr(ns[i])])>>) :
              ns \in [1..n -> RepoNamePool]} : n \in 0..MaxRepos}

\* The responses an endpoint can send: success with a body from payloads, a
\* failure status with a body from failureBodies, a body that is no JSON.
Responses(payloads, failureBodies) ==
    {[ok |-> TRUE, parses |-> TRUE, data |-> d] : d \in payloads} \cup
    {[ok |-> FALSE, parses |-> TRUE, data |-> d] : d \in failureBodies} \cup
    {[ok |-> o, parses |-> FALSE, data |-> JUndefined] : o \in BOOLEAN}

ReposResponses == Responses(ReposPayloads, ReposPayloads)

WorkflowsResponses ==
    Responses(WorkflowsPayloads,
              {d \in WorkflowsPayloads : Len(d.k) <= 1} \cup {JObj(<<"error">>, <<JStr("Not Found")>>)})

LogsResponses ==
    Responses(LogsPayloads,
              LinePayloads \cup ShapelessPayloads \cup {JObj(<<"error">>, <<JStr("Not Found")>>)})

NoResponse == [ok |-> FALSE, parses |-> FALSE, data |-> JUndefined]

(***************************************************************************)
(* The view before it is mounted.                                          *)
(***************************************************************************)
NoDownload == [done |-> FALSE, name |-> "", content |-> ""]

ViewUnmounted ==
    /\ accessToken = ""
    /\ ownerName = ""
    /\ repoName = ""
    /\ workflowId = ""
    /\ workflowTitle = ""
    /\ logFiles = <<>>
    /\ activeFile = ""
    /\ loading = TRUE
    /\ mounted = FALSE
    /\ pending = <<>>
    /\ lastLoaded = <<>>
    /\ toast = ""
    /\ download = NoDownload

(***************************************************************************)
(* Specification of the fetch wrappers: one call on one response.          *)
(***************************************************************************)
Init ==
    /\ \/ fn = "fetchRepositories" /\ response \in ReposResponses
       \/ fn = "fetchWorkflows" /\ response \in WorkflowsResponses
       \/ fn = "fetchWorkflowLogs" /\ response \in LogsResponses
    /\ result = Pending
    /\ ViewUnmounted

CallFetchRepositories ==
    /\ fn = "fetchRepositories"
    /\ result = Pending
    /\ result' = fetchRepositories(response)
    /\ UNCHANGED <<fn, response, viewVars>>

CallFetchWorkflows ==
    /\ fn = "fetchWorkflows"
    /\ result = Pending
    /\ result' = fetchWorkflows(response)
    /\ UNCHANGED <<fn, response, viewVars>>

CallFetchWorkflowLogs ==
    /\ fn = "fetchWorkflowLogs"
    /\ result = Pending
    /\ result' = fetchWorkflowLogs(response)
    /\ UNCHANGED <<fn, response, viewVars>>

Next == CallFetchRepositories \/ CallFetchWorkflows \/ CallFetchWorkflowLogs

Spec == Init /\ [][Next]_vars

(***************************************************************************)
(* Properties of fetchWorkflowLogs.                                        *)
(***************************************************************************)
\* The call under study is fetchWorkflowLogs and is over.
LogsCallDone == fn = "fetchWorkflowLogs" /\ result.state # "pending"

\* The LogFile list a finished fetchWorkflowLogs call returned.
ReturnedLogFiles ==
    IF LogsCallDone /\ result.state = "returned" THEN result.value ELSE <<>>

\* Every entry of every returned LogFile.
ReturnedEntries ==
    Flatten([i \in 1..Len(ReturnedLogFiles) |-> ReturnedLogFiles[i].logs])

\* C1: the normalization never fails on a payload that parsed: whatever is
\* absent, null or of an unexpected shape in it, fetchWorkflowLogs returns a
\* list and signals no error.
C1_NormalizationNeverFails ==
    (LogsCallDone /\ response.ok /\ response.parses) => result.state = "returned"

RECURSIVE ToLowerCase(_)
\* s with every capital Latin letter replaced by its small letter.
ToLowerCase(s) ==
    IF s = "" THEN ""
    ELSE LET c == SubSeq(s, 1, 1)
             upper == "ABCDEFGHIJKLMNOPQRSTUVWXYZ"
             lower == "abcdefghijklmnopqrstuvwxyz"
             d == IF \E i \in 1..26 : SubSeq(upper, i, i) = c
                  THEN LET i == CHOOSE j \in 1..26 : SubSeq(upper, j, j) = c
                       IN SubSeq(lower, i, i)
                  ELSE c
         IN d \o ToLowerCase(SubSeq(s, 2, Len(s)))

\* The type the classification rule gives to a line, read on line itself.
TypeByKeywords(line) ==
    IF StrIncludes(line, "success") \/ StrIncludes(line, "completed") THEN "success"
    ELSE IF StrIncludes(line, "warning") \/ StrIncludes(line, "waiting") THEN "warning"
    ELSE IF StrIncludes(line, "error") \/ StrIncludes(line, "failed") THEN "error"
    ELSE "info"

\* The type each literal case of the rule is given.
LiteralType(line) ==
    CASE line = "Task completed" -> "success"
      [] line = "Waiting for runner" -> "warning"
      [] line = "Step failed" -> "error"
      [] line = "Starting job" -> "info"
      [] OTHER -> TypeByKeywords(ToLowerCase(line))

\* C2: every raw line is classified on its lowercase form: the type of an
\* entry is the one the keyword rule gives to the lowercased line, and the
\* four literal cases get success, warning, error and info.
C2_ClassifiedOnLowercase ==
    \A i \in 1..Len(ReturnedEntries) :
        LET e == ReturnedEntries[i]
        IN e.message.t = "string" =>
              /\ e.type = TypeByKeywords(ToLowerCase(e.message.s))
              /\ e.type = LiteralType(e.message.s)

HasSuccessKeyword(line) == StrIncludes(line, "success") \/ StrIncludes(line, "completed")
HasWarningKeyword(line) == StrIncludes(line, "warning") \/ StrIncludes(line, "waiting")
HasErrorKeyword(line) == StrIncludes(line, "error") \/ StrIncludes(line, "failed")

\* C3: a line holding keywords of several classes gets the class of highest
\* precedence (success over warning over error) wherever the keywords stand:
\* a success keyword gives success, a warning keyword without a success
\* keyword gives warning; "error: build completed" is success and "failed
\* while waiting" is warning.
C3_PrecedenceNotPosition ==
    \A i \in 1..Len(ReturnedEntries) :
        LET e == ReturnedEntries[i]
        IN e.message.t = "string" =>
              /\ HasSuccessKeyword(e.message.s) => e.type = "success"
              /\ (HasWarningKeyword(e.message.s) /\ ~HasSuccessKeyword(e.message.s))
                    => e.type = "warning"
              /\ e.message.s = "error: build completed" => e.type = "success"
              /\ e.message.s = "failed while waiting" => e.type = "warning"

\* A returned list holds a line whose error keyword precedes its success
\* keyword, or whose error keyword precedes its warning keyword.
C3_Witness ==
    \E i \in 1..Len(ReturnedEntries) :
        /\ ReturnedEntries[i].message.t = "string"
        /\ ReturnedEntries[i].message.s \in {"error: build completed", "failed while waiting"}
        /\ HasErrorKeyword(ReturnedEntries[i].message.s)

\* The payload is a job -> file -> category map: objects at the first three
\* levels, and every category either an array of strings or no array.
IsLogMap(data) ==
    LET cl == Get(data, "cleanedLogs")
    IN /\ cl.t = "object"
       /\ \A j \in 1..Len(cl.a) :
            /\ cl.a[j].t = "object"
            /\ \A f \in 1..Len(cl.a[j].a) :
                 LET fd == cl.a[j].a[f]
                 IN /\ fd.t = "object"
                    /\ \A c \in 1..Len(fd.a) :
                         IsArray(fd.a[c]) =>
                            \A l \in 1..Len(fd.a[c].a) : fd.a[c].a[l].t = "string"

\* The (job, file) pairs of a log map in key order, job first.
Pairs(data) ==
    LET cl == Get(data, "cleanedLogs")
    IN Flatten([j \in 1..Len(cl.k) |->
                  [f \in 1..Len(cl.a[j].k) |->
                      [job |-> cl.k[j], file |-> cl.a[j].k[f], data |-> cl.a[j].a[f]]]])

RECURSIVE ArrayTotalFrom(_, _)
\* Sum of the lengths of the array-valued categories of fd from the c-th on.
ArrayTotalFrom(fd, c) ==
    IF c > Len(fd.a) THEN 0
    ELSE (IF IsArray(fd.a[c]) THEN Len(fd.a[c].a) ELSE 0) + ArrayTotalFrom(fd, c + 1)

ArrayTotal(fd) == ArrayTotalFrom(fd, 1)

\* The pairs whose array-valued categories hold at least one line.
NonEmptyPairs(data) == SelectSeq(Pairs(data), LAMBDA p : ArrayTotal(p.data) > 0)

\* C4: on a job -> file -> category map the call returns, each LogFile holds
\* as many entries as the array-valued categories of its pair have lines, a
\* category that is no array adds no entry and no error, and a pair with no
\* line yields no LogFile.
C4_EntryCounts ==
    (LogsCallDone /\ response.ok /\ response.parses /\ IsLogMap(response.data)) =>
        /\ result.state = "returned"
        /\ LET ne == NonEmptyPairs(response.data)
           IN /\ Len(result.value) = Len(ne)
              /\ \A i \in 1..Len(ne) :
                    Len(result.value[i].logs) = ArrayTotal(ne[i].data)

\* A log map was normalized in which one pair has no line at all and another
\* has a category that is no array next to one that holds lines.
C4_Witness ==
    /\ LogsCallDone /\ response.ok /\ response.parses /\ IsLogMap(response.data)
    /\ \E i \in 1..Len(Pairs(response.data)) :
          /\ ArrayTotal(Pairs(response.data)[i].data) = 0
          /\ Len(Pairs(response.data)[i].data.a) > 0
    /\ \E i \in 1..Len(Pairs(response.data)) :
          LET fd == Pairs(response.data)[i].data
          IN /\ ArrayTotal(fd) > 0
             /\ \E c \in 1..Len(fd.a) : ~IsArray(fd.a[c])
    /\ Len(result.value) >= 2

\* The category fields the entries of one file must carry, in order.
ExpectedCategories(fd) ==
    Flatten([c \in 1..Len(fd.k) |->
               IF IsArray(fd.a[c])
               THEN [l \in 1..Len(fd.a[c].a) |->
                        IF fd.k[c] = "SingleLogs" THEN <<>> ELSE <<fd.k[c]>>]
               ELSE <<>>])

\* C5: no returned entry has the category "SingleLogs"; on a log map, the
\* entries from the key "SingleLogs" have no category and the entries from
\* any other key carry that key.
C5_SingleLogsDropped ==
    /\ \A i \in 1..Len(ReturnedEntries) : ReturnedEntries[i].category # <<"SingleLogs">>
    /\ (LogsCallDone /\ result.state = "returned" /\ IsLogMap(response.data)) =>
          LET ne == NonEmptyPairs(response.data)
          IN \A i \in 1..Len(result.value) :
                [l \in 1..Len(result.value[i].logs) |-> result.value[i].logs[l].category]
                    = ExpectedCategories(ne[i].data)

\* A returned LogFile mixes entries from "SingleLogs" with entries from
\* another category key.
C5_Witness ==
    \E i \in 1..Len(ReturnedLogFiles) :
        /\ \E l \in 1..Len(ReturnedLogFiles[i].logs) :
              ReturnedLogFiles[i].logs[l].category = <<>>
        /\ \E l \in 1..Len(ReturnedLogFiles[i].logs) :
              ReturnedLogFiles[i].logs[l].category = <<"Build">>

\* The lines of one file in category order and, within a category, in array
\* order.
ExpectedMessages(fd) ==
    Flatten([c \in 1..Len(fd.k) |-> IF IsArray(fd.a[c]) THEN fd.a[c].a ELSE <<>>])

\* C6: the returned list follows the key order of the input, job first and
\* then file, each LogFile named "<job>/<file>"; inside a LogFile the entries
\* follow category order and then array order.
C6_TraversalOrder ==
    (LogsCallDone /\ result.state = "returned" /\ IsLogMap(response.data)) =>
        LET ne == NonEmptyPairs(response.data)
        IN /\ [i \in 1..Len(result.value) |-> result.value[i].name]
                 = [i \in 1..Len(ne) |-> ne[i].job \o "/" \o ne[i].file]
           /\ \A i \in 1..Len(result.value) :
                 [l \in 1..Len(result.value[i].logs) |-> result.value[i].logs[l].message]
                     = ExpectedMessages(ne[i].data)

\* Two jobs of two files each were normalized into four LogFiles, one of
\* them drawing its entries from several categories.
C6_Witness ==
    /\ LogsCallDone /\ result.state = "returned" /\ IsLogMap(response.data)
    /\ Len(result.value) = 4
    /\ \E i \in 1..4 : Len(result.value[i].logs) = 2 /\ result.value[i].logs[1].category = <<"Build">>

(***************************************************************************)
(* Properties of the three wrappers.                                       *)
(***************************************************************************)
\* C7: for each wrapper, a response whose status is not successful ends the
\* call in a failure; no value is returned.
C7_FailureStatusThrows ==
    (result.state # "pending" /\ ~response.ok) =>
        /\ result.state = "threw"
        /\ result.value = <<>>

\* A wrapper met a failure status whose body would have parsed.
C7_Witness ==
    /\ result.state = "threw"
    /\ ~response.ok
    /\ response.parses
    /\ response.data.t = "object"

\* The counter a workflows payload gives under key, 0 when it has none.
CounterOrZero(data, key) ==
    IF \E i \in 1..Len(data.k) : data.k[i] = key
    THEN data.a[CHOOSE i \in 1..Len(data.k) : data.k[i] = key]
    ELSE JNum(0)

\* C8: fetchWorkflows returns the counters success, failure, progress and
\* cancel equal to the payload's success, failure, Progress and Cancel, 0
\* for each one absent; {success: 3} alone gives 3, 0, 0, 0; workflows is
\* empty when storeLogs is absent.
C8_StatsDefaultZero ==
    (fn = "fetchWorkflows" /\ result.state # "pending" /\ response.ok /\ response.parses) =>
        /\ result.state = "returned"
        /\ result.value.stats.success = CounterOrZero(response.data, "success")
        /\ result.value.stats.failure = CounterOrZero(response.data, "failure")
        /\ result.value.stats.progress = CounterOrZero(response.data, "Progress")
        /\ result.value.stats.cancel = CounterOrZero(response.data, "Cancel")
        /\ response.data = JObj(<<"success">>, <<JNum(3)>>) =>
              result.value.stats = [success |-> JNum(3), failure |-> JNum(0),
                                    progress |-> JNum(0), cancel |-> JNum(0)]
        /\ Get(response.data, "storeLogs") = JUndefined => result.value.workflows = <<>>

\* fetchWorkflows returned for a payload that has Progress and Cancel but
\* neither failure nor storeLogs.
C8_Witness ==
    /\ fn = "fetchWorkflows"
    /\ result.state = "returned"
    /\ response.data.k = <<"success", "Progress", "Cancel">>
    /\ result.value.stats.progress = JNum(2)
    /\ result.value.stats.cancel = JNum(1)
    /\ result.value.stats.failure = JNum(0)

(***************************************************************************)
(* LogViewer.                                                              *)
(***************************************************************************)
MaxPending == 2     \* loadLogs calls that may be suspended at one time

\* What the parent can pass as props, and what useAuth can hold; "" is a
\* value that is missing.
RepoProps == {"", "web"}
WorkflowProps == {"", "101", "102", "103"}
AuthStates ==
    {[accessToken |-> "gho_1", ownerName |-> "octo"],
     [accessToken |-> "", ownerName |-> "octo"],
     [accessToken |-> "gho_1", ownerName |-> ""]}

\* The display title the parent passes along with a workflow id.
TitleOf(wf) == IF wf = "" THEN "" ELSE "CI #" \o wf

\* The body the logs endpoint holds for a request: run 101 has two jobs, one
\* of them with a "/" in its name, run 102 has one job, run 103 has no logs.
ServerPayload(req) ==
    CASE req.workflowId = "101" ->
            JObj(<<"cleanedLogs">>,
                 <<JObj(<<"build", "test/unit">>,
                        <<JObj(<<"1_setup.txt", "2_run.txt">>,
                               <<JObj(<<"SingleLogs">>,
                                      <<JArr(<<JStr("Starting job for " \o req.repoName),
                                               JStr("Task completed")>>)>>),
                                 JObj(<<"Build">>, <<JArr(<<JStr("Step failed")>>)>>)>>),
                          JObj(<<"1_setup.txt">>,
                               <<JObj(<<"SingleLogs", "Test">>,
                                      <<JArr(<<JStr("Waiting for runner")>>),
                                        JArr(<<JStr("tests of " \o req.repoName)>>)>>)>>)>>)>>)
      [] req.workflowId = "102" ->
            JObj(<<"cleanedLogs">>,
                 <<JObj(<<"deploy">>,
                        <<JObj(<<"1_push.txt">>,
                               <<JObj(<<"SingleLogs">>,
                                      <<JArr(<<JStr("Deploying " \o req.repoName),
                                               JStr("error: build completed")>>)>>)>>)>>)>>)
      [] OTHER -> JObj(<<>>, <<>>)

\* The arguments loadLogs passes to fetchWorkflowLogs.
Request(tok, owner, repo, wf) ==
    [accessToken |-> tok, ownerName |-> owner, repoName |-> repo, workflowId |-> wf]

\* Every request the view can send.
Requests ==
    {Request(auth.accessToken, auth.ownerName, repo, wf) :
        auth \in AuthStates, repo \in RepoProps, wf \in WorkflowProps}

\* The responses the fetch of a request can settle with: the endpoint's body,
\* a failure status, or a body that is no JSON.
ServerResponses(req) ==
    {[ok |-> TRUE, parses |-> TRUE, data |-> ServerPayload(req)],
     [ok |-> FALSE, parses |-> TRUE, data |-> JObj(<<"error">>, <<JStr("Not Found")>>)],
     [ok |-> TRUE, parses |-> FALSE, data |-> JUndefined]}


\* What the awaited fetchWorkflowLogs call of a request settles with, for each
\* response its fetch can receive.
SettledWith ==
    [req \in Requests |-> [resp \in ServerResponses(req) |-> fetchWorkflowLogs(resp)]]

\* if (!accessToken || !ownerName || !repoName || !workflowId) return;
LoadLogsReturnsEarly(tok, owner, repo, wf) ==
    tok = "" \/ owner = "" \/ repo = "" \/ wf = ""

\* loadLogs up to its await, called with the props of the current render:
\* nothing on the early return; otherwise setLoading(true) and the fetch is
\* in flight.
LoadLogsStart(repo, wf) ==
    IF LoadLogsReturnsEarly(accessToken, ownerName, repo, wf)
    THEN UNCHANGED <<loading, pending>>
    ELSE /\ loading' = TRUE
         /\ pending' = Append(pending, Request(accessToken, ownerName, repo, wf))

\* Whether a call of loadLogs may start without exceeding MaxPending.
MayStart(repo, wf) ==
    LoadLogsReturnsEarly(accessToken, ownerName, repo, wf) \/ Len(pending) < MaxPending

\* A store that drops the logs of a request the view no longer shows.
StoredLogsIfCurrent(req, logs) ==
    IF req.repoName = repoName /\ req.workflowId = workflowId THEN logs ELSE logFiles

\* setLogFiles(logs): the logs of the settled fetch replace the list.
StoredLogs(req, logs) == logs

\* String(v) as Array.prototype.join applies it to an element.
RECURSIVE ToStr(_)
ToStr(v) ==
    CASE v.t = "string" -> v.s
      [] v.t = "number" -> ToString(v.n)
      [] v.t = "array" ->
            IF v.a = <<>> THEN ""
            ELSE LET h == IF Nullish(v.a[1]) THEN "" ELSE ToStr(v.a[1])
                 IN IF Len(v.a) = 1 THEN h ELSE h \o "," \o ToStr(JArr(Tail(v.a)))
      [] v.t = "object" -> "[object Object]"
      [] OTHER -> ""

RECURSIVE Join(_, _)
\* Array.prototype.join on strings.
Join(strs, sep) ==
    IF strs = <<>> THEN ""
    ELSE IF Len(strs) = 1 THEN strs[1]
    ELSE strs[1] \o sep \o Join(Tail(strs), sep)

\* String.prototype.replace with a string pattern: the first occurrence only.
ReplaceFirst(s, pat, rep) ==
    IF ~StrIncludes(s, pat) THEN s
    ELSE LET at(i) == SubSeq(s, i, i + Len(pat) - 1) = pat
             i == CHOOSE j \in 1..(Len(s) - Len(pat) + 1) :
                      at(j) /\ \A h \in 1..(j - 1) : ~at(h)
         IN SubSeq(s, 1, i - 1) \o rep \o SubSeq(s, i + Len(pat), Len(s))

\* `${repoName}-${workflowTitle}-${activeFile.replace('/', '-')}.txt`
DownloadName(repo, title, active) ==
    repo \o "-" \o title \o "-" \o ReplaceFirst(active, "/", "-") \o ".txt"

\* currentFile.logs.map(log => log.message).join('\n')
DownloadContent(file) ==
    Join([i \in 1..Len(file.logs) |-> ToStr(file.logs[i].message)], "\n")

\* The state after the first render, before any effect has run.
InitView ==
    /\ fn = "none"
    /\ response = NoResponse
    /\ result = Pending
    /\ \E auth \in AuthStates :
          accessToken = auth.accessToken /\ ownerName = auth.ownerName
    /\ repoName \in RepoProps
    /\ workflowId \in WorkflowProps
    /\ workflowTitle = TitleOf(workflowId)
    /\ logFiles = <<>>
    /\ activeFile = ""
    /\ loading = TRUE
    /\ mounted = FALSE
    /\ pending = <<>>
    /\ lastLoaded = <<>>
    /\ toast = ""
    /\ download = NoDownload

\* The effect after mount: if (workflowId) loadLogs().
Mount ==
    /\ ~mounted
    /\ mounted' = TRUE
    /\ IF workflowId # "" THEN LoadLogsStart(repoName, workflowId)
       ELSE UNCHANGED <<loading, pending>>
    /\ UNCHANGED <<apiVars, accessToken, ownerName, repoName, workflowId,
                   workflowTitle, logFiles, activeFile, lastLoaded, toast, download>>

\* The parent renders the view with other props; the effect runs again since
\* workflowId or repoName changed.
SelectWorkflow ==
    /\ mounted
    /\ \E repo \in RepoProps, wf \in WorkflowProps :
          /\ <<repo, wf>> # <<repoName, workflowId>>
          /\ wf # "" => MayStart(repo, wf)
          /\ repoName' = repo
          /\ workflowId' = wf
          /\ workflowTitle' = TitleOf(wf)
          /\ IF wf # "" THEN LoadLogsStart(repo, wf)
             ELSE UNCHANGED <<loading, pending>>
    /\ UNCHANGED <<apiVars, accessToken, ownerName, logFiles, activeFile, mounted,
                   lastLoaded, toast, download>>

\* The Retry button, rendered when loading is false and logFiles is empty.
Retry ==
    /\ mounted
    /\ ~loading
    /\ logFiles = <<>>
    /\ MayStart(repoName, workflowId)
    /\ LoadLogsStart(repoName, workflowId)
    /\ UNCHANGED <<apiVars, accessToken, ownerName, repoName, workflowId,
                   workflowTitle, logFiles, activeFile, mounted, lastLoaded, toast,
                   download>>

\* The fetch of one suspended loadLogs call settles and the call runs to its
\* end: try, catch and finally.
FetchSettles ==
    /\ \E i \in 1..Len(pending) :
          \E resp \in ServerResponses(pending[i]) :
             LET r == SettledWith[pending[i]][resp]
                 rest == [j \in 1..(Len(pending) - 1) |->
                             IF j < i THEN pending[j] ELSE pending[j + 1]]
             IN /\ pending' = rest
                /\ IF r.state = "returned"
                   THEN /\ logFiles' = StoredLogs(pending[i], r.value)
                        /\ activeFile' = IF Len(r.value) > 0 THEN r.value[1].name
                                         ELSE activeFile
                        /\ lastLoaded' = <<pending[i]>>
                        /\ toast' = toast
                   ELSE /\ toast' = "Failed to load workflow logs"
                        /\ UNCHANGED <<logFiles, activeFile, lastLoaded>>
                /\ loading' = FALSE
    /\ UNCHANGED <<apiVars, accessToken, ownerName, repoName, workflowId,
                   workflowTitle, mounted, download>>

\* handleFileChange, from the file selector rendered with the logs.
HandleFileChange ==
    /\ mounted
    /\ ~loading
    /\ logFiles # <<>>
    /\ \E i \in 1..Len(logFiles) : activeFile' = logFiles[i].name
    /\ UNCHANGED <<apiVars, accessToken, ownerName, repoName, workflowId,
                   workflowTitle, logFiles, loading, mounted, pending, lastLoaded,
                   toast, download>>

\* downloadLogs, from the Download button rendered with the logs.
DownloadLogs ==
    /\ mounted
    /\ ~loading
    /\ logFiles # <<>>
    /\ IF \E i \in 1..Len(logFiles) : logFiles[i].name = activeFile
       THEN LET i == CHOOSE j \in 1..Len(logFiles) :
                        /\ logFiles[j].name = activeFile
                        /\ \A h \in 1..(j - 1) : logFiles[h].name # activeFile
            IN /\ download' = [done |-> TRUE,
                               name |-> DownloadName(repoName, workflowTitle, activeFile),
                               content |-> DownloadContent(logFiles[i])]
               /\ toast' = "Logs downloaded successfully"
       ELSE UNCHANGED <<download, toast>>
    /\ UNCHANGED <<apiVars, accessToken, ownerName, repoName, workflowId,
                   workflowTitle, logFiles, activeFile, loading, mounted, pending,
                   lastLoaded>>

NextView ==
    Mount \/ SelectWorkflow \/ Retry \/ FetchSettles \/ HandleFileChange \/ DownloadLogs

SpecView == InitView /\ [][NextView]_vars

(***************************************************************************)
(* Properties of LogViewer.                                                *)
(***************************************************************************)
RECURSIVE ReplaceAll(_, _, _)
\* s with every occurrence of the one-character pattern replaced.
ReplaceAll(s, pat, rep) ==
    IF s = "" THEN ""
    ELSE (IF SubSeq(s, 1, 1) = pat THEN rep ELSE SubSeq(s, 1, 1))
            \o ReplaceAll(SubSeq(s, 2, Len(s)), pat, rep)

\* C9: the file downloadLogs produces is named
\* "{repo}-{workflowTitle}-{name}.txt", {name} being the active LogFile name
\* with every "/" replaced by "-", and holds the messages of the active
\* LogFile in entry order joined by newlines.
C9_DownloadNameAndContent ==
    [][download' # download =>
          \E i \in 1..Len(logFiles) :
             /\ logFiles[i].name = activeFile
             /\ download'.name = repoName \o "-" \o workflowTitle \o "-"
                                   \o ReplaceAll(activeFile, "/", "-") \o ".txt"
             /\ download'.content =
                   Join([l \in 1..Len(logFiles[i].logs) |-> logFiles[i].logs[l].message.s],
                        "\n")]_vars

\* The request loadLogs would send for the props now shown.
CurrentRequest == Request(accessToken, ownerName, repoName, workflowId)

\* The list a fetch of req resolves with when the endpoint answers.
ExpectedLogs(req) ==
    SettledWith[req][[ok |-> TRUE, parses |-> TRUE, data |-> ServerPayload(req)]].value

\* C10: whatever the interleaving of switches and settlements, once no fetch
\* is outstanding the logFiles held are the result of the fetch issued for
\* the selection now shown (or still empty): no result of a superseded fetch
\* stays displayed.
C10_NoStaleLogs ==
    (mounted /\ pending = <<>>
        /\ ~LoadLogsReturnsEarly(accessToken, ownerName, repoName, workflowId)) =>
        (logFiles = <<>> \/ logFiles = ExpectedLogs(CurrentRequest))

\* C10, as amended: the logFiles held are at every moment the result of the
\* fetch that settled successfully last, whatever selection it was issued
\* for, and the initial empty list while none has; a failing fetch leaves
\* them as they are.
C10_LastSettledWins ==
    logFiles = IF lastLoaded = <<>> THEN <<>> ELSE ExpectedLogs(lastLoaded[1])

\* No fetch is outstanding, none has failed, and the logs shown are those of
\* a workflow other than the one selected.
C10_Witness ==
    /\ mounted
    /\ pending = <<>>
    /\ toast = ""
    /\ ~LoadLogsReturnsEarly(accessToken, ownerName, repoName, workflowId)
    /\ lastLoaded # <<>>
    /\ lastLoaded[1].workflowId # workflowId
    /\ logFiles # <<>>
    /\ logFiles # ExpectedLogs(CurrentRequest)

\* C11: once the view is mounted, loading is true exactly while a
\* fetchWorkflowLogs call started by the view is outstanding: false when none
\* is (also right after mount and after a loadLogs call that returned early),
\* true while one still is, even if an overlapping one has settled.
C11_LoadingIffOutstanding ==
    mounted => (loading <=> pending # <<>>)

====
